---------------------------- MODULE Spec2Model ----------------------------
(***************************************************************************)
(* A model of src/stomp.py: the STOMP frame codec (Frame.serialize,        *)
(* Frame._parse_iter, Frame.parse, Frame.parse_from_socket) and the        *)
(* connection engine (Connection and its three greenlets _run_send,        *)
(* _run_recv and _run_socket_fixer).                                       *)
(*                                                                         *)
(* A Python str is a sequence of one-byte tokens; the bytes 0x0a and 0x00  *)
(* are the tokens NL and NUL.  A Python value that may be an int or a str  *)
(* (a header value) is a tagged record, so that 0 and "0" differ as they   *)
(* do in Python.  A dict is a sequence of key/value entries with unique    *)
(* keys; two dicts are equal when they hold the same entries.              *)
(*                                                                         *)
(* Greenlets are cooperative: a greenlet runs until it blocks (a socket    *)
(* operation, Event.wait, Queue.peek on an empty queue), so every action   *)
(* of the engine is the code between two blocking points.                  *)
(***************************************************************************)
EXTENDS Integers, Sequences, FiniteSets, TLC

(***************************************************************************)
(* Bounds of the model.                                                    *)
(***************************************************************************)
MaxEnq == 2        \* frames ever put on send_q
MaxFail == 1       \* failures: a dead socket, a refused connection, a refused handshake
MaxSrv == 1        \* frames the broker sends on a socket after its handshake answer

(***************************************************************************)
(* Bytes and Python values.                                                *)
(***************************************************************************)
NL == "LF"
NUL == "NUL"
Colon == ":"

Digits == <<"0", "1", "2", "3", "4", "5", "6", "7", "8", "9">>

PyInt(n) == [t |-> "int", n |-> n, s |-> <<>>]
PyStr(s) == [t |-> "str", n |-> 0, s |-> s]

RECURSIVE Decimal(_)
Decimal(n) ==
    IF n < 10 THEN <<Digits[n + 1]>>
    ELSE Decimal(n \div 10) \o <<Digits[(n % 10) + 1]>>

\* '{0}'.format(v): the text of a str, the decimal digits of an int
Format(v) == IF v.t = "int" THEN Decimal(v.n) ELSE v.s

\* Each of these evaluates its argument once (v is its value), as Python
\* does before a call.
\* the index of the first b in s, 0 when there is none (str.find + 1)
Find(s, b) ==
    CHOOSE r \in
        {IF \E i \in 1..Len(v) : v[i] = b
         THEN CHOOSE i \in 1..Len(v) : v[i] = b /\ \A j \in 1..(i - 1) : v[j] # b
         ELSE 0 : v \in {s}} : TRUE

\* the index of the first "\n\n" in s, 0 when there is none
FindNLNL(s) ==
    CHOOSE r \in
        {IF \E i \in 1..(Len(v) - 1) : v[i] = NL /\ v[i + 1] = NL
         THEN CHOOSE i \in 1..(Len(v) - 1) :
                 /\ v[i] = NL /\ v[i + 1] = NL
                 /\ \A j \in 1..(i - 1) : ~(v[j] = NL /\ v[j + 1] = NL)
         ELSE 0 : v \in {s}} : TRUE

\* len(data) - len(data.lstrip('\n'))
LStripCount(s) ==
    CHOOSE r \in
        {IF \A i \in 1..Len(v) : v[i] = NL THEN Len(v)
         ELSE (CHOOSE i \in 1..Len(v) :
                  v[i] # NL /\ \A j \in 1..(i - 1) : v[j] = NL) - 1 : v \in {s}} : TRUE

Drop(s, n) == CHOOSE r \in {SubSeq(v, n + 1, Len(v)) : v \in {s}} : TRUE
Take(s, n) == SubSeq(s, 1, n)

\* s.split('\n')
RECURSIVE SplitNL(_)
SplitNL(s) ==
    LET i == Find(s, NL) IN
    IF i = 0 THEN <<s>> ELSE <<Take(s, i - 1)>> \o SplitNL(Drop(s, i))

(***************************************************************************)
(* dict                                                                    *)
(***************************************************************************)
DictHas(d, k) == \E i \in 1..Len(d) : d[i].k = k
DictGet(d, k) == d[CHOOSE i \in 1..Len(d) : d[i].k = k].v
DictSet(d, k, v) ==
    IF DictHas(d, k)
    THEN [i \in 1..Len(d) |-> IF d[i].k = k THEN [k |-> k, v |-> v] ELSE d[i]]
    ELSE Append(d, [k |-> k, v |-> v])
DictItems(d) == {d[i] : i \in 1..Len(d)}

\* d.update(e)
RECURSIVE DictUpdate(_, _)
DictUpdate(d, e) ==
    IF e = <<>> THEN d
    ELSE DictUpdate(DictSet(d, Head(e).k, Head(e).v), Tail(e))

(***************************************************************************)
(* Strings of the protocol.                                                *)
(***************************************************************************)
S_SEND == <<"S", "E", "N", "D">>
S_SUBSCRIBE == <<"S", "U", "B", "S", "C", "R", "I", "B", "E">>
S_UNSUBSCRIBE == <<"U", "N", "S", "U", "B", "S", "C", "R", "I", "B", "E">>
S_BEGIN == <<"B", "E", "G", "I", "N">>
S_COMMIT == <<"C", "O", "M", "M", "I", "T">>
S_ABORT == <<"A", "B", "O", "R", "T">>
S_ACK == <<"A", "C", "K">>
S_NACK == <<"N", "A", "C", "K">>
S_DISCONNECT == <<"D", "I", "S", "C", "O", "N", "N", "E", "C", "T">>
S_CONNECT == <<"C", "O", "N", "N", "E", "C", "T">>
S_STOMP == <<"S", "T", "O", "M", "P">>
S_CONNECTED == <<"C", "O", "N", "N", "E", "C", "T", "E", "D">>
S_MESSAGE == <<"M", "E", "S", "S", "A", "G", "E">>
S_RECEIPT == <<"R", "E", "C", "E", "I", "P", "T">>
S_ERROR == <<"E", "R", "R", "O", "R">>
S_HEARTBEAT == <<"H", "E", "A", "R", "T", "B", "E", "A", "T">>

K_content_length ==
    <<"c", "o", "n", "t", "e", "n", "t", "-", "l", "e", "n", "g", "t", "h">>
K_destination == <<"d", "e", "s", "t", "i", "n", "a", "t", "i", "o", "n">>
K_receipt == <<"r", "e", "c", "e", "i", "p", "t">>
K_receipt_id == <<"r", "e", "c", "e", "i", "p", "t", "-", "i", "d">>
K_subscription ==
    <<"s", "u", "b", "s", "c", "r", "i", "p", "t", "i", "o", "n">>
K_id == <<"i", "d">>
K_ack == <<"a", "c", "k">>
K_login == <<"l", "o", "g", "i", "n">>
K_passcode == <<"p", "a", "s", "s", "c", "o", "d", "e">>
K_session == <<"s", "e", "s", "s", "i", "o", "n">>
K_server == <<"s", "e", "r", "v", "e", "r">>
V_auto == <<"a", "u", "t", "o">>

CLIENT_CMDS ==
    {S_SEND, S_SUBSCRIBE, S_UNSUBSCRIBE, S_BEGIN, S_COMMIT, S_ABORT, S_ACK,
     S_NACK, S_DISCONNECT, S_CONNECT, S_STOMP}
SERVER_CMDS == {S_CONNECTED, S_MESSAGE, S_RECEIPT, S_ERROR}
ALL_CMDS == CLIENT_CMDS \cup SERVER_CMDS

(***************************************************************************)
(* Frame                                                                   *)
(***************************************************************************)
\* Frame.__new__ raises ValueError unless this holds
ValidCommand(command) == command \in ALL_CMDS

Frame(command, headers, body) ==
    [command |-> command, headers |-> headers, body |-> body]

\* Python's None where a Frame is expected
None == Frame(<<>>, <<>>, <<>>)

\* the headers of a frame after serialize ran on it: serialize writes
\* content-length into the frame's own dict
SerializedHeaders(f) ==
    IF f.body # <<>> /\ ~DictHas(f.headers, K_content_length)
    THEN DictSet(f.headers, K_content_length, PyInt(Len(f.body)))
    ELSE f.headers

\* '\n'.join(['{0}:{1}'.format(k, v) for k, v in headers.items()])
RECURSIVE JoinHeaders(_)
JoinHeaders(d) ==
    IF d = <<>> THEN <<>>
    ELSE LET line == Head(d).k \o <<Colon>> \o Format(Head(d).v) IN
         IF Len(d) = 1 THEN line ELSE line \o <<NL>> \o JoinHeaders(Tail(d))

serialize(f) ==
    f.command \o <<NL>> \o JoinHeaders(SerializedHeaders(f))
        \o <<NL, NL>> \o f.body \o <<NUL>>

(***************************************************************************)
(* Frame._parse_iter: the generator is a record of the yield it is         *)
(* suspended at (phase) and of its live locals; send(p, data) resumes it   *)
(* with data and runs it to its next yield or to an exception.  The list   *)
(* sofar is kept joined.                                                   *)
(***************************************************************************)
Gen(phase, sofar, command, headers) ==
    [phase |-> phase, sofar |-> sofar, command |-> command, headers |-> headers]

\* what a send returns: the generator after it, the pair it yielded, or the
\* exception it raised
Yield(gen, frame, consumed) ==
    [gen |-> gen, frame |-> frame, consumed |-> consumed, exc |-> "none"]
Raise(exc) ==
    [gen |-> Gen("raised", <<>>, <<>>, <<>>), frame |-> None, consumed |-> 0,
     exc |-> exc]

\* the generator after parser.next(): suspended at the first yield
NewParser == Gen("newlines", <<>>, <<>>, <<>>)

\* for cur_header in header_str.split('\n'): headers[key] = value
RECURSIVE HeadersOf(_, _)
HeadersOf(lines, headers) ==
    IF lines = <<>> THEN headers
    ELSE LET cur == Head(lines)
             i == Find(cur, Colon)
             key == IF i = 0 THEN cur ELSE Take(cur, i - 1)
             value == IF i = 0 THEN <<>> ELSE Drop(cur, i)
         IN HeadersOf(Tail(lines), DictSet(headers, key, PyStr(value)))

\* the body loop of a frame without content-length
BodyPhase(command, headers, sofar, data, consumed) ==
    LET i == Find(data, NUL) IN
    IF i = 0
    THEN Yield(Gen("body", sofar \o data, command, headers), None,
               consumed + Len(data))
    ELSE LET end_of_body == Take(data, i - 1) IN
         IF ValidCommand(command)
         THEN Yield(Gen("done", <<>>, <<>>, <<>>),
                    Frame(command, headers, sofar \o end_of_body),
                    consumed + Len(end_of_body) + 1)
         ELSE Raise("ValueError")

\* the choice of the body loop: HeadersOf stores every value as a str, so
\* headers['content-length'] + 1 raises TypeError and the loop that counts
\* bytes_to_go never runs
BodyStart(command, headers, data, consumed) ==
    IF DictHas(headers, K_content_length)
    THEN Raise("TypeError")
    ELSE BodyPhase(command, headers, <<>>, data, consumed)

\* the header loop: only the chunk just received is searched for "\n\n",
\* the partition is of everything accumulated
HeaderPhase(command, sofar, data, consumed) ==
    IF FindNLNL(data) = 0
    THEN Yield(Gen("headers", sofar \o data, command, <<>>), None,
               consumed + Len(data))
    ELSE LET all == sofar \o data
             i == FindNLNL(all)
             header_str == Take(all, i - 1)
         IN BodyStart(command, HeadersOf(SplitNL(header_str), <<>>),
                      Drop(all, i + 1), consumed + Len(header_str) + 2)

CommandPhase(sofar, data, consumed) ==
    LET i == Find(data, NL) IN
    IF i = 0
    THEN Yield(Gen("command", sofar \o data, <<>>, <<>>), None,
               consumed + Len(data))
    ELSE HeaderPhase(sofar \o Take(data, i - 1), <<>>, Drop(data, i),
                     consumed + i)

\* the loop that clears between-message newlines, then the heartbeat check
NewlinePhase(data) ==
    LET consumed == LStripCount(data)
        rest == Drop(data, consumed)
    IN IF rest = <<>> THEN Yield(NewParser, None, consumed)
       ELSE IF rest[1] = NL
            THEN IF ValidCommand(S_HEARTBEAT)
                 THEN Yield(Gen("heartbeat", <<>>, <<>>, <<>>),
                            Frame(S_HEARTBEAT, <<>>, <<>>), consumed + 1)
                 ELSE Raise("ValueError")
            ELSE CommandPhase(<<>>, rest, consumed)

\* parser.send(data)
send(gen, data) ==
    CASE gen.phase = "newlines" -> NewlinePhase(data)
      [] gen.phase = "command" -> CommandPhase(gen.sofar, data, 0)
      [] gen.phase = "headers" -> HeaderPhase(gen.command, gen.sofar, data, 0)
      [] gen.phase = "body" ->
            BodyPhase(gen.command, gen.headers, gen.sofar, data, 0)
      [] OTHER -> Raise("StopIteration")

\* Frame.parse(data): the frame, or the exception raised
parse(data) ==
    LET r == send(NewParser, data) IN
    IF r.exc # "none" THEN [frame |-> None, exc |-> r.exc]
    ELSE IF r.consumed # Len(data) THEN [frame |-> None, exc |-> "ValueError"]
    ELSE IF r.frame = None THEN [frame |-> None, exc |-> "ValueError"]
    ELSE [frame |-> r.frame, exc |-> "none"]


(***************************************************************************)
(* The connection engine.                                                  *)
(***************************************************************************)
VARIABLES
    stopping,           \* Connection.stopping
    sock_ready,         \* Connection.sock_ready is set
    sock_broken,        \* Connection.sock_broken is set
    sock,               \* Connection.sock: "none" is None, "current" a socket
    session,            \* Connection.session
    msg_id,             \* Connection.msg_id
    sub_id,             \* Connection.sub_id
    no_receipt,         \* Connection.no_receipt
    send_q,             \* Connection.send_q: entries [id, frame], id the object's identity
    on_message_calls,   \* the calls made to Connection.on_message
    send_pc, send_sock, \* _run_send: where it is blocked, the socket of its sendall
    recv_pc, recv_sock, recv_gen,  \* _run_recv, the socket and generator of its parse
    fix_pc, fix_gen,    \* _run_socket_fixer, the generator of its parse
    sock_alive,         \* the transport behind sock is usable
    inbuf,              \* the bytes the broker sent on sock that were not read off it
    arrived,            \* how many of them a recv has returned; the rest may be in flight
    n_enq,              \* frames put on send_q so far
    n_fail,             \* failures so far
    n_srv,              \* frames the broker sent on sock after its handshake answer
    sent,               \* ids of the frames written and removed, in order
    srv_log,            \* the frames the broker sent on sock, in order
    parse_log,          \* the frames parse_from_socket returned from sock, in order
    frame_in,           \* a Frame handed to the codec on its own
    data_left,          \* the bytes of its serialization not yet given to a parser
    parser_out,         \* what the last send to a parser made by _parse_iter returned
    parse_ret,          \* what Frame.parse returned or raised
    codec_use,          \* how the codec is used: "idle", "chunks" or "parse"
    started,            \* Connection.started
    spawned,            \* how many greenlets start() spawned so far
    start_exc,          \* what the last call of start() raised, "none" if nothing
    disconnect_ret      \* a call of disconnect() has returned to its caller

conn_vars == <<stopping, sock_ready, sock_broken, sock, session, msg_id, sub_id,
               no_receipt, on_message_calls>>
glet_vars == <<send_pc, send_sock, recv_pc, recv_sock, recv_gen, fix_pc, fix_gen>>
env_vars == <<sock_alive, inbuf, arrived, n_fail, n_srv, srv_log>>
codec_vars == <<frame_in, data_left, parser_out, parse_ret, codec_use>>
engine_vars == <<conn_vars, glet_vars, env_vars, send_q, n_enq, sent, parse_log>>
life_vars == <<started, spawned, start_exc, disconnect_ret>>
vars == <<engine_vars, codec_vars, life_vars>>

PyNone == [t |-> "none", n |-> 0, s |-> <<>>]

\* socket.recv(4096, ...)
RecvMax == 4096

Min(a, b) == IF a < b THEN a ELSE b

\* ---- the frames of the broker
ConnectedFrame ==
    Frame(S_CONNECTED, <<[k |-> K_session, v |-> PyStr(<<"s">>)]>>, <<>>)
ErrorFrame == Frame(S_ERROR, <<[k |-> <<"m">>, v |-> PyStr(<<"e">>)]>>, <<>>)
ReceiptFrame(n) ==
    Frame(S_RECEIPT, <<[k |-> K_receipt_id, v |-> PyStr(Decimal(n))]>>, <<>>)
MessageAckFrame == Frame(S_MESSAGE, <<[k |-> K_ack, v |-> PyStr(V_auto)]>>, <<>>)
MessageFrame ==
    Frame(S_MESSAGE, <<[k |-> K_destination, v |-> PyStr(<<"/", "q">>)]>>, <<>>)

\* ---- gevent.queue.Queue
CanPut == n_enq < MaxEnq
put(q, f) == Append(q, [id |-> n_enq, frame |-> f])
peek(q) == Head(q)
\* a get() that takes the frame put last
get_last(q) == SubSeq(q, 1, Len(q) - 1)
get(q) == Tail(q)

\* ---- gevent.event.Event: set() wakes the greenlets waiting at that moment,
\* and a woken greenlet goes on whatever the flag is when it runs
WakeReady(pc) == IF pc = "wait_ready" THEN "loop" ELSE pc
WakeBroken(pc) == IF pc = "wait_broken" THEN "reconnect" ELSE pc

\* a socket that stays usable after _reconnect has killed and replaced it
Usable_stale(s) == s # "none" /\ sock_alive

\* is the socket a greenlet holds usable: it is the engine's and it is alive
Usable(s) == s = "current" /\ sock_alive

\* the socket a greenlet holds, after the engine's socket was replaced
Superseded(s) == IF s = "current" THEN "superseded" ELSE s

\* the log of the frames returned from a socket, kept as long as
\* what the broker sends on a socket
Log(log, f) == IF Len(log) < MaxSrv + 1 THEN Append(log, f) ELSE log

(***************************************************************************)
(* Connection.__init__ and the start() it ends with: the state in which    *)
(* the three greenlets are spawned, _run_send and _run_recv are blocked in  *)
(* their first sock_ready.wait() and _run_socket_fixer is at the test of   *)
(* its loop.                                                               *)
(***************************************************************************)
InitConnection ==
    /\ stopping = FALSE
    /\ sock_ready = FALSE
    /\ sock_broken = TRUE
    /\ sock = "none"
    /\ session = PyNone
    /\ msg_id = 0
    /\ sub_id = 0
    /\ no_receipt = {}
    /\ send_q = <<>>
    /\ on_message_calls = <<>>
    /\ send_pc = "wait_ready" /\ send_sock = "none"
    /\ recv_pc = "wait_ready" /\ recv_sock = "none" /\ recv_gen = NewParser
    /\ fix_pc = "loop" /\ fix_gen = NewParser
    /\ sock_alive = FALSE
    /\ inbuf = <<>> /\ arrived = 0
    /\ n_enq = 0 /\ n_fail = 0 /\ n_srv = 0
    /\ sent = <<>> /\ srv_log = <<>> /\ parse_log = <<>>
    /\ started = TRUE /\ spawned = 3 /\ start_exc = "none"
    /\ disconnect_ret = FALSE

\* Frame.parse was not called
NotCalled == [frame |-> None, exc |-> "not called"]

\* the connection, and no use of the codec on its own
Init ==
    /\ InitConnection
    /\ frame_in = None /\ data_left = <<>>
    /\ parser_out = Yield(NewParser, None, 0)
    /\ parse_ret = NotCalled
    /\ codec_use = "idle"

\* Connection.__init__ before its last statement, the call of start():
\* the events are created clear and no greenlet exists
InitNew ==
    /\ stopping = FALSE
    /\ sock_ready = FALSE
    /\ sock_broken = FALSE
    /\ sock = "none"
    /\ session = PyNone
    /\ msg_id = 0
    /\ sub_id = 0
    /\ no_receipt = {}
    /\ send_q = <<>>
    /\ on_message_calls = <<>>
    /\ send_pc = "none" /\ send_sock = "none"
    /\ recv_pc = "none" /\ recv_sock = "none" /\ recv_gen = NewParser
    /\ fix_pc = "none" /\ fix_gen = NewParser
    /\ sock_alive = FALSE
    /\ inbuf = <<>> /\ arrived = 0
    /\ n_enq = 0 /\ n_fail = 0 /\ n_srv = 0
    /\ sent = <<>> /\ srv_log = <<>> /\ parse_log = <<>>
    /\ started = FALSE /\ spawned = 0 /\ start_exc = "none"
    /\ disconnect_ret = FALSE
    /\ frame_in = None /\ data_left = <<>>
    /\ parser_out = Yield(NewParser, None, 0)
    /\ parse_ret = NotCalled
    /\ codec_use = "idle"

(***************************************************************************)
(* The callers.                                                            *)
(***************************************************************************)
\* the headers send() builds
SendHeaders(destination, extra_headers) ==
    LET headers == <<[k |-> K_destination, v |-> PyStr(destination)],
                     [k |-> K_receipt, v |-> PyInt(msg_id)]>>
    IN IF extra_headers # <<>> THEN DictUpdate(headers, extra_headers) ELSE headers

Send(destination, body, extra_headers) ==
    /\ CanPut
    /\ no_receipt' = no_receipt \cup {PyInt(msg_id)}
    /\ msg_id' = msg_id + 1
    /\ send_q' = put(send_q, Frame(S_SEND, SendHeaders(destination, extra_headers), body))
    /\ n_enq' = n_enq + 1
    /\ UNCHANGED <<stopping, sock_ready, sock_broken, sock, session, sub_id,
                   on_message_calls, glet_vars, env_vars, sent, parse_log>>
    /\ UNCHANGED <<codec_vars, life_vars>>

Subscribe(destination) ==
    /\ CanPut
    /\ sub_id' = sub_id + 1
    /\ send_q' = put(send_q, Frame(S_SUBSCRIBE,
                        <<[k |-> K_subscription, v |-> PyStr(destination)],
                          [k |-> K_id, v |-> PyInt(sub_id + 1)],
                          [k |-> K_ack, v |-> PyStr(V_auto)]>>, <<>>))
    /\ n_enq' = n_enq + 1
    /\ UNCHANGED <<stopping, sock_ready, sock_broken, sock, session, msg_id,
                   no_receipt, on_message_calls, glet_vars, env_vars, sent, parse_log>>
    /\ UNCHANGED <<codec_vars, life_vars>>

SendFrame(frame) ==
    /\ CanPut
    /\ send_q' = put(send_q, frame)
    /\ n_enq' = n_enq + 1
    /\ UNCHANGED <<conn_vars, glet_vars, env_vars, sent, parse_log>>
    /\ UNCHANGED <<codec_vars, life_vars>>

\* disconnect(timeout): wait("RECEIPT") is a pass, the call returns at once
Disconnect(timeout) ==
    /\ CanPut
    /\ send_q' = put(send_q, Frame(S_DISCONNECT, <<>>, <<>>))
    /\ n_enq' = n_enq + 1
    /\ disconnect_ret' = TRUE
    /\ UNCHANGED <<conn_vars, glet_vars, env_vars, sent, parse_log>>
    /\ UNCHANGED <<codec_vars, started, spawned, start_exc>>

\* start() without its test of started
Start_again ==
    /\ started' = TRUE
    /\ sock_broken' = TRUE
    /\ sock_ready' = FALSE
    /\ spawned' = spawned + 3
    /\ send_pc' = "wait_ready" /\ recv_pc' = "wait_ready" /\ fix_pc' = "loop"
    /\ start_exc' = "none"
    /\ UNCHANGED <<stopping, sock, session, msg_id, sub_id, no_receipt, on_message_calls,
                   send_sock, recv_sock, recv_gen, fix_gen, env_vars, send_q, n_enq,
                   sent, parse_log>>
    /\ UNCHANGED <<codec_vars, disconnect_ret>>

\* start(): the three greenlets it spawns run to their first blocking call,
\* the sender and the receiver to sock_ready.wait()
Start ==
    /\ IF started
       THEN /\ start_exc' = "ValueError"
            /\ UNCHANGED <<started, sock_broken, sock_ready, spawned,
                           send_pc, recv_pc, fix_pc>>
       ELSE /\ started' = TRUE
            /\ sock_broken' = TRUE
            /\ sock_ready' = FALSE
            /\ spawned' = spawned + 3
            /\ send_pc' = "wait_ready" /\ recv_pc' = "wait_ready" /\ fix_pc' = "loop"
            /\ start_exc' = "none"
    /\ UNCHANGED <<stopping, sock, session, msg_id, sub_id, no_receipt, on_message_calls,
                   send_sock, recv_sock, recv_gen, fix_gen, env_vars, send_q, n_enq,
                   sent, parse_log>>
    /\ UNCHANGED <<codec_vars, disconnect_ret>>

Stop ==
    /\ ~stopping
    /\ stopping' = TRUE
    /\ UNCHANGED <<sock_ready, sock_broken, sock, session, msg_id, sub_id, no_receipt,
                   on_message_calls, glet_vars, env_vars, send_q, n_enq, sent, parse_log>>
    /\ UNCHANGED <<codec_vars, life_vars>>

(***************************************************************************)
(* _run_send                                                               *)
(***************************************************************************)
\* cur = peek(); serial_cur = cur.serialize(): serialize writes into the
\* frame that is on the queue
Serialized(q) == [q EXCEPT ![1].frame.headers = SerializedHeaders(peek(q).frame)]

\* the test of the while loop with q on the queue, to where _run_send blocks
\* next: in peek() on an empty queue, or in sendall
SendNext(q) ==
    IF stopping
    THEN send_pc' = "done" /\ send_q' = q /\ UNCHANGED send_sock
    ELSE IF q = <<>>
         THEN send_pc' = "peek" /\ send_q' = q /\ UNCHANGED send_sock
         ELSE send_pc' = "sendall" /\ send_q' = Serialized(q) /\ send_sock' = sock

\* sock_ready.wait() returned
SendLoop ==
    /\ send_pc = "loop"
    /\ SendNext(send_q)
    /\ UNCHANGED <<conn_vars, recv_pc, recv_sock, recv_gen, fix_pc, fix_gen, env_vars,
                   n_enq, sent, parse_log>>
    /\ UNCHANGED <<codec_vars, life_vars>>

\* peek() returned: a frame was put on the queue
SendPeek ==
    /\ send_pc = "peek"
    /\ send_q # <<>>
    /\ send_pc' = "sendall"
    /\ send_q' = Serialized(send_q)
    /\ send_sock' = sock
    /\ UNCHANGED <<conn_vars, recv_pc, recv_sock, recv_gen, fix_pc, fix_gen, env_vars,
                   n_enq, sent, parse_log>>
    /\ UNCHANGED <<codec_vars, life_vars>>

\* sendall returned: self.send_q.get(), and round the loop
SendallOk ==
    /\ send_pc = "sendall"
    /\ Usable(send_sock)
    /\ sent' = Append(sent, peek(send_q).id)
    /\ SendNext(get(send_q))
    /\ UNCHANGED <<conn_vars, recv_pc, recv_sock, recv_gen, fix_pc, fix_gen,
                   env_vars, n_enq, parse_log>>
    /\ UNCHANGED <<codec_vars, life_vars>>

\* a sender that drops the frame whose write failed
SendallError_drop ==
    /\ send_pc = "sendall"
    /\ ~Usable(send_sock)
    /\ sock_ready' = FALSE
    /\ sock_broken' = TRUE
    /\ fix_pc' = WakeBroken(fix_pc)
    /\ send_pc' = "wait_ready"
    /\ send_q' = get(send_q)
    /\ UNCHANGED <<stopping, sock, session, msg_id, sub_id, no_receipt, on_message_calls,
                   send_sock, recv_pc, recv_sock, recv_gen, fix_gen, env_vars,
                   n_enq, sent, parse_log>>
    /\ UNCHANGED <<codec_vars, life_vars>>

\* sendall raised socket.error: clear sock_ready, set sock_broken, wait
SendallError ==
    /\ send_pc = "sendall"
    /\ ~Usable(send_sock)
    /\ sock_ready' = FALSE
    /\ sock_broken' = TRUE
    /\ fix_pc' = WakeBroken(fix_pc)
    /\ send_pc' = "wait_ready"
    /\ UNCHANGED <<stopping, sock, session, msg_id, sub_id, no_receipt, on_message_calls,
                   send_sock, recv_pc, recv_sock, recv_gen, fix_gen, env_vars, send_q,
                   n_enq, sent, parse_log>>
    /\ UNCHANGED <<codec_vars, life_vars>>

(***************************************************************************)
(* Frame.parse_from_socket: one turn of its loop on a socket on which n    *)
(* bytes have arrived.  The bytes are peeked and sent to the generator;    *)
(* when no frame is complete the consumed bytes are read off the socket;   *)
(* when one is complete it is returned and nothing is read off.  A recv is *)
(* a point where the greenlet may be switched out, so the other greenlets  *)
(* may run between two turns.                                              *)
(***************************************************************************)
\* how many of the bytes sent on the socket a recv may find arrived: all of
\* them, or the bytes up to the first of the two newlines that end a frame's
\* headers (the packet boundary on which the parser's header loop depends);
\* never fewer than an earlier recv found
ArrivalSizes ==
    {n \in {Len(inbuf), FindNLNL(inbuf)} : n >= 1 /\ n >= arrived}

\* sock.recv(4096, socket.MSG_PEEK) with n bytes arrived
Peeked(n) == Take(inbuf, Min(RecvMax, n))
\* the turn of the generator gen
Turn(gen, n) == send(gen, Peeked(n))
\* did the turn leave the frame incomplete, so that sock.recv(bytes_consumed)
\* follows
Incomplete(r) == r.exc = "none" /\ r.frame = None
\* the socket after the turn
ReadOff(r, n) ==
    /\ inbuf' = IF Incomplete(r) THEN Drop(inbuf, Min(r.consumed, n)) ELSE inbuf
    /\ arrived' = IF Incomplete(r) THEN n - Min(r.consumed, n) ELSE n

(***************************************************************************)
(* _run_recv                                                               *)
(***************************************************************************)
\* the test of the while loop, to where _run_recv blocks next: in the first
\* recv of parse_from_socket(self.sock)
RecvNext ==
    IF stopping
    THEN recv_pc' = "done" /\ UNCHANGED <<recv_sock, recv_gen>>
    ELSE recv_pc' = "recv" /\ recv_sock' = sock /\ recv_gen' = NewParser

\* sock_ready.wait() returned
RecvLoop ==
    /\ recv_pc = "loop"
    /\ RecvNext
    /\ UNCHANGED <<conn_vars, send_pc, send_sock, fix_pc, fix_gen, env_vars, send_q,
                   n_enq, sent, parse_log>>
    /\ UNCHANGED <<codec_vars, life_vars>>

\* a receiver that acknowledges every MESSAGE
AutoAck_every(cur) ==
    IF cur.command = S_MESSAGE THEN <<Frame(S_ACK, <<>>, <<>>)>> ELSE <<>>

\* the frames the receiver puts on send_q for a frame it received
AutoAck(cur) ==
    IF cur.command = S_MESSAGE /\ DictHas(cur.headers, K_ack)
    THEN <<Frame(S_ACK, <<>>, <<>>)>>
    ELSE <<>>

\* cur.headers.get('receipt-id')
ReceiptId(cur) ==
    IF DictHas(cur.headers, K_receipt_id) THEN DictGet(cur.headers, K_receipt_id)
    ELSE PyNone

\* no_receipt after the receiver handled cur
AfterReceipt(cur, ids) ==
    IF cur.command = S_RECEIPT /\ ReceiptId(cur) \in ids
    THEN ids \ {ReceiptId(cur)}
    ELSE ids

\* the calls the receiver makes to on_message for a frame it received: none
HandlerCalls(cur) == <<>>

\* the body of the try block for a frame parse_from_socket returned
Dispatch(cur) ==
    /\ IF AutoAck(cur) # <<>>
       THEN /\ CanPut
            /\ send_q' = put(send_q, AutoAck(cur)[1])
            /\ n_enq' = n_enq + 1
       ELSE UNCHANGED <<send_q, n_enq>>
    /\ no_receipt' = AfterReceipt(cur, no_receipt)
    /\ on_message_calls' = on_message_calls \o HandlerCalls(cur)

\* a recv of parse_from_socket returned bytes
RecvData(n) ==
    /\ recv_pc = "recv"
    /\ Usable(recv_sock)
    /\ \E r \in {Turn(recv_gen, n)} :
       /\ ReadOff(r, n)
       /\ IF r.exc # "none"
          THEN \* not a socket.error: nothing catches it and the greenlet dies
               /\ recv_pc' = "dead"
               /\ UNCHANGED <<recv_sock, recv_gen, send_q, n_enq, no_receipt,
                              on_message_calls, parse_log>>
          ELSE IF r.frame = None
          THEN /\ recv_gen' = r.gen
               /\ UNCHANGED <<recv_pc, recv_sock, send_q, n_enq, no_receipt,
                              on_message_calls, parse_log>>
          ELSE /\ Dispatch(r.frame)
               /\ parse_log' = Log(parse_log, r.frame)
               /\ RecvNext
    /\ UNCHANGED <<stopping, sock_ready, sock_broken, sock, session, msg_id, sub_id,
                   send_pc, send_sock, fix_pc, fix_gen, sock_alive,
                   n_fail, n_srv, srv_log, sent>>
    /\ UNCHANGED <<codec_vars, life_vars>>

\* the receiver's handler of socket.error without its sock_broken.set()
RecvError_keep ==
    /\ recv_pc = "recv"
    /\ ~Usable(recv_sock)
    /\ sock_ready' = FALSE
    /\ recv_pc' = "wait_ready"
    /\ UNCHANGED <<stopping, sock_broken, sock, session, msg_id, sub_id, no_receipt,
                   on_message_calls, send_pc, send_sock, recv_sock, recv_gen, fix_pc,
                   fix_gen, env_vars, send_q, n_enq, sent, parse_log>>
    /\ UNCHANGED <<codec_vars, life_vars>>

\* a recv of parse_from_socket raised socket.error
RecvError ==
    /\ recv_pc = "recv"
    /\ ~Usable(recv_sock)
    /\ sock_ready' = FALSE
    /\ sock_broken' = TRUE
    /\ fix_pc' = WakeBroken(fix_pc)
    /\ recv_pc' = "wait_ready"
    /\ UNCHANGED <<stopping, sock, session, msg_id, sub_id, no_receipt, on_message_calls,
                   send_pc, send_sock, recv_sock, recv_gen, fix_gen, env_vars, send_q,
                   n_enq, sent, parse_log>>
    /\ UNCHANGED <<codec_vars, life_vars>>

(***************************************************************************)
(* _run_socket_fixer and Connection._reconnect                             *)
(***************************************************************************)
\* the test of the while loop and sock_broken.wait(), to where the fixer
\* blocks next: in the wait, or (the old socket killed) in get_connection
FixNext(broken) ==
    IF stopping
    THEN fix_pc' = "done" /\ UNCHANGED sock_alive
    ELSE IF broken
         THEN fix_pc' = "connect" /\ sock_alive' = FALSE
         ELSE fix_pc' = "wait_broken" /\ UNCHANGED sock_alive

\* _run_socket_fixer starts
FixLoop ==
    /\ fix_pc = "loop"
    /\ FixNext(sock_broken)
    /\ UNCHANGED <<conn_vars, send_pc, send_sock, recv_pc, recv_sock, recv_gen, fix_gen,
                   inbuf, arrived, n_fail, n_srv, srv_log, send_q, n_enq, sent, parse_log>>
    /\ UNCHANGED <<codec_vars, life_vars>>

\* sock_broken.wait() returned after a set(): _reconnect kills the old socket
\* and blocks in get_connection
FixWoken ==
    /\ fix_pc = "reconnect"
    /\ fix_pc' = "connect"
    /\ sock_alive' = FALSE
    /\ UNCHANGED <<conn_vars, send_pc, send_sock, recv_pc, recv_sock, recv_gen, fix_gen,
                   inbuf, arrived, n_fail, n_srv, srv_log, send_q, n_enq, sent, parse_log>>
    /\ UNCHANGED <<codec_vars, life_vars>>

\* get_connection returned a new socket; sendall of the CONNECT frame blocks
FixConnected ==
    /\ fix_pc = "connect"
    /\ sock' = "current"
    /\ send_sock' = Superseded(send_sock)
    /\ recv_sock' = Superseded(recv_sock)
    /\ sock_alive' = TRUE
    /\ inbuf' = <<>> /\ arrived' = 0 /\ n_srv' = 0
    /\ srv_log' = <<>> /\ parse_log' = <<>>
    /\ fix_pc' = "sendall"
    /\ UNCHANGED <<stopping, sock_ready, sock_broken, session, msg_id, sub_id,
                   no_receipt, on_message_calls, send_pc, recv_pc, recv_gen, fix_gen,
                   n_fail, send_q, n_enq, sent>>
    /\ UNCHANGED <<codec_vars, life_vars>>

\* get_connection raised: the bare except swallows it, sock_broken is still
\* set and the fixer is in get_connection again
FixConnectError ==
    /\ fix_pc = "connect"
    /\ n_fail < MaxFail
    /\ n_fail' = n_fail + 1
    /\ FixNext(sock_broken)
    /\ UNCHANGED <<conn_vars, send_pc, send_sock, recv_pc, recv_sock, recv_gen, fix_gen,
                   inbuf, arrived, n_srv, srv_log, send_q, n_enq, sent, parse_log>>
    /\ UNCHANGED <<codec_vars, life_vars>>

\* sendall of the CONNECT frame returned, and the broker answers with resp;
\* parse_from_socket(self.sock) blocks in its first recv
FixSendallOk(resp) ==
    /\ fix_pc = "sendall"
    /\ sock_alive
    /\ resp # ConnectedFrame => n_fail < MaxFail
    /\ n_fail' = IF resp = ConnectedFrame THEN n_fail ELSE n_fail + 1
    /\ inbuf' = inbuf \o serialize(resp)
    /\ srv_log' = Append(srv_log, resp)
    /\ fix_gen' = NewParser
    /\ fix_pc' = "recv"
    /\ UNCHANGED <<conn_vars, send_pc, send_sock, recv_pc, recv_sock, recv_gen,
                   sock_alive, arrived, n_srv, send_q, n_enq, sent, parse_log>>
    /\ UNCHANGED <<codec_vars, life_vars>>

\* sendall of the CONNECT frame raised socket.error
FixSendallError ==
    /\ fix_pc = "sendall"
    /\ ~sock_alive
    /\ FixNext(sock_broken)
    /\ UNCHANGED <<conn_vars, send_pc, send_sock, recv_pc, recv_sock, recv_gen, fix_gen,
                   inbuf, arrived, n_fail, n_srv, srv_log, send_q, n_enq, sent, parse_log>>
    /\ UNCHANGED <<codec_vars, life_vars>>

\* the handshake succeeded for the response resp
Handshake(resp) ==
    resp.command = S_CONNECTED /\ DictHas(resp.headers, K_session)

\* a recv of the handshake's parse_from_socket returned bytes
FixData(n) ==
    /\ fix_pc = "recv"
    /\ sock_alive
    /\ \E r \in {Turn(fix_gen, n)} :
       /\ ReadOff(r, n)
       /\ IF Incomplete(r)
          THEN /\ fix_gen' = r.gen
               /\ UNCHANGED <<fix_pc, sock_alive, session, sock_ready, sock_broken,
                              send_pc, recv_pc, parse_log>>
          ELSE IF r.exc = "none" /\ Handshake(r.frame)
          THEN /\ session' = DictGet(r.frame.headers, K_session)
               /\ sock_broken' = FALSE
               /\ sock_ready' = TRUE
               /\ send_pc' = WakeReady(send_pc)
               /\ recv_pc' = WakeReady(recv_pc)
               /\ parse_log' = Log(parse_log, r.frame)
               /\ FixNext(FALSE)
               /\ UNCHANGED fix_gen
          ELSE \* the parser raised, or ValueError (not CONNECTED), or KeyError
               /\ parse_log' = IF r.exc = "none" THEN Log(parse_log, r.frame)
                               ELSE parse_log
               /\ FixNext(sock_broken)
               /\ UNCHANGED <<fix_gen, session, sock_ready, sock_broken, send_pc, recv_pc>>
    /\ UNCHANGED <<stopping, sock, msg_id, sub_id, no_receipt, on_message_calls,
                   send_sock, recv_sock, recv_gen, n_fail, n_srv,
                   srv_log, send_q, n_enq, sent>>
    /\ UNCHANGED <<codec_vars, life_vars>>

\* a handshake whose recv raised socket.error and which declares the
\* connection ready all the same
FixError_ready ==
    /\ fix_pc = "recv"
    /\ ~sock_alive
    /\ sock_broken' = FALSE
    /\ sock_ready' = TRUE
    /\ send_pc' = WakeReady(send_pc)
    /\ recv_pc' = WakeReady(recv_pc)
    /\ FixNext(FALSE)
    /\ UNCHANGED <<stopping, sock, session, msg_id, sub_id, no_receipt, on_message_calls,
                   send_sock, recv_sock, recv_gen, fix_gen, inbuf, arrived, n_fail, n_srv,
                   srv_log, send_q, n_enq, sent, parse_log>>
    /\ UNCHANGED <<codec_vars, life_vars>>

\* a recv of the handshake's parse_from_socket raised socket.error
FixError ==
    /\ fix_pc = "recv"
    /\ ~sock_alive
    /\ FixNext(sock_broken)
    /\ UNCHANGED <<conn_vars, send_pc, send_sock, recv_pc, recv_sock, recv_gen, fix_gen,
                   inbuf, arrived, n_fail, n_srv, srv_log, send_q, n_enq, sent, parse_log>>
    /\ UNCHANGED <<codec_vars, life_vars>>

(***************************************************************************)
(* The transport and the broker.                                           *)
(***************************************************************************)
\* the transport behind sock dies
TransportFail ==
    /\ sock_alive
    /\ n_fail < MaxFail
    /\ n_fail' = n_fail + 1
    /\ sock_alive' = FALSE
    /\ UNCHANGED <<conn_vars, glet_vars, inbuf, arrived, n_srv, srv_log, send_q, n_enq,
                   sent, parse_log>>
    /\ UNCHANGED <<codec_vars, life_vars>>

\* the broker sends a frame after its handshake answer
BrokerSend(frame) ==
    /\ sock_alive
    /\ srv_log # <<>>
    /\ n_srv < MaxSrv
    /\ n_srv' = n_srv + 1
    /\ inbuf' = inbuf \o serialize(frame)
    /\ srv_log' = Append(srv_log, frame)
    /\ UNCHANGED <<conn_vars, glet_vars, sock_alive, arrived, n_fail, send_q,
                   n_enq, sent, parse_log>>
    /\ UNCHANGED <<codec_vars, life_vars>>


\* the broker sends bytes that are not the serialization of a frame
BrokerSendBytes(bytes) ==
    /\ sock_alive
    /\ srv_log # <<>>
    /\ n_srv < MaxSrv
    /\ n_srv' = n_srv + 1
    /\ inbuf' = inbuf \o bytes
    /\ UNCHANGED <<conn_vars, glet_vars, sock_alive, arrived, n_fail, srv_log, send_q,
                   n_enq, sent, parse_log>>
    /\ UNCHANGED <<codec_vars, life_vars>>

(***************************************************************************)
(* The codec used on its own: a Frame is serialized, and its bytes are     *)
(* given either to Frame.parse in one call or, cut into chunks, to a       *)
(* generator made by Frame._parse_iter.                                    *)
(***************************************************************************)
\* the next chunk of n bytes is sent to the generator
Feed(n) ==
    /\ codec_use \in {"idle", "chunks"}
    /\ n \in 1..Len(data_left)
    /\ parser_out' = send(parser_out.gen, Take(data_left, n))
    /\ data_left' = Drop(data_left, n)
    /\ codec_use' = "chunks"
    /\ UNCHANGED <<engine_vars, life_vars, frame_in, parse_ret>>

\* Frame.parse is called on all the bytes
ParseAll ==
    /\ codec_use = "idle"
    /\ data_left # <<>>
    /\ parse_ret' = parse(data_left)
    /\ data_left' = <<>>
    /\ codec_use' = "parse"
    /\ UNCHANGED <<engine_vars, life_vars, frame_in, parser_out>>

(***************************************************************************)
(* The inputs.                                                             *)
(***************************************************************************)
Destinations == {<<"/", "q">>}
Bodies == {<<"h", "i">>}
ExtraHeaders == {<<>>}
RawFrames == {Frame(S_DISCONNECT, <<>>, <<>>)}
HandshakeAnswers == {ConnectedFrame, ErrorFrame}
BrokerFrames == {ReceiptFrame(0), MessageAckFrame, MessageFrame}

\* the callers' inputs to send(): no body and a body, no extra headers, an
\* extra header of the caller's and an extra header named receipt
AnyBodies == {<<>>, <<"h", "i">>}
AnyExtraHeaders ==
    {<<>>,
     <<[k |-> <<"x">>, v |-> PyStr(<<"y">>)]>>,
     <<[k |-> K_receipt, v |-> PyStr(<<"r">>)]>>}

\* valid frames for the codec: with headers and without, with a body (for
\* which serialize adds content-length) and without
CodecFrames ==
    {ConnectedFrame, MessageAckFrame, ReceiptFrame(0),
     Frame(S_ACK, <<>>, <<>>),
     Frame(S_SEND, <<[k |-> K_destination, v |-> PyStr(<<"/", "q">>)]>>, <<"h", "i">>),
     Frame(S_SEND, <<[k |-> K_destination, v |-> PyStr(<<"/", "q">>)],
                     [k |-> K_content_length, v |-> PyInt(2)]>>, <<"h", "i">>)}

(***************************************************************************)
(* The engine with its callers, the broker and a transport that fails.     *)
(***************************************************************************)
Sender == SendLoop \/ SendPeek \/ SendallOk \/ SendallError
Receiver == RecvLoop \/ (\E n \in ArrivalSizes : RecvData(n)) \/ RecvError
Fixer(answers) ==
    \/ FixLoop \/ FixWoken \/ FixConnected \/ FixConnectError
    \/ \E resp \in answers : FixSendallOk(resp)
    \/ FixSendallError \/ (\E n \in ArrivalSizes : FixData(n)) \/ FixError

Next ==
    \/ \E d \in Destinations, b \in Bodies, e \in ExtraHeaders : Send(d, b, e)
    \/ \E d \in Destinations : Subscribe(d)
    \/ \E f \in RawFrames : SendFrame(f)
    \/ Sender \/ Receiver \/ Fixer(HandshakeAnswers)
    \/ TransportFail
    \/ \E f \in BrokerFrames : BrokerSend(f)

Spec == Init /\ [][Next]_vars

(***************************************************************************)
(* The engine with callers that pass every kind of argument to send(), and *)
(* a broker that answers every handshake with CONNECTED.                   *)
(***************************************************************************)
NextCallers ==
    \/ \E d \in Destinations, b \in AnyBodies, e \in AnyExtraHeaders : Send(d, b, e)
    \/ \E d \in Destinations : Subscribe(d)
    \/ \E f \in RawFrames : SendFrame(f)
    \/ Sender \/ Receiver \/ Fixer({ConnectedFrame})
    \/ TransportFail

SpecCallers == Init /\ [][NextCallers]_vars

(***************************************************************************)
(* The engine while stop() is not called, with a broker that answers every *)
(* handshake with CONNECTED and a transport whose failures cease (MaxFail);*)
(* each of the three greenlets runs when it can.                           *)
(***************************************************************************)
NextLive ==
    \/ \E d \in Destinations, b \in Bodies : Send(d, b, <<>>)
    \/ Sender \/ Receiver \/ Fixer({ConnectedFrame})
    \/ TransportFail

SpecLive ==
    /\ Init
    /\ [][NextLive]_vars
    /\ WF_vars(Sender)
    /\ WF_vars(Receiver)
    /\ WF_vars(Fixer({ConnectedFrame}))

(***************************************************************************)
(* The codec on its own, on each of the frames of CodecFrames.             *)
(***************************************************************************)
InitParse ==
    /\ InitConnection
    /\ frame_in \in CodecFrames
    /\ data_left = serialize(frame_in)
    /\ parser_out = Yield(NewParser, None, 0)
    /\ parse_ret = NotCalled
    /\ codec_use = "idle"

NextParse ==
    \/ \E n \in 1..Len(data_left) : Feed(n)
    \/ ParseAll

SpecParse == InitParse /\ [][NextParse]_vars

(***************************************************************************)
(* The codec on its own, on bytes that begin with the newlines a broker    *)
(* sends between frames as heartbeats.                                     *)
(***************************************************************************)
HeartbeatInputs ==
    {<<NL>>,
     <<NL>> \o serialize(ReceiptFrame(0)),
     <<NL, NL>> \o serialize(ConnectedFrame)}

InitBytes ==
    /\ InitConnection
    /\ frame_in = None
    /\ data_left \in HeartbeatInputs
    /\ parser_out = Yield(NewParser, None, 0)
    /\ parse_ret = NotCalled
    /\ codec_use = "idle"

SpecBytes == InitBytes /\ [][NextParse]_vars

(***************************************************************************)
(* The connection with a caller of send and a caller of stop; each of the  *)
(* three greenlets runs when it can.                                       *)
(***************************************************************************)
NextStop ==
    \/ \E d \in Destinations, b \in Bodies : Send(d, b, <<>>)
    \/ Stop
    \/ Sender \/ Receiver \/ Fixer({ConnectedFrame})
    \/ TransportFail

SpecStop ==
    /\ Init
    /\ [][NextStop]_vars
    /\ WF_vars(Sender)
    /\ WF_vars(Receiver)
    /\ WF_vars(Fixer({ConnectedFrame}))

(***************************************************************************)
(* The connection from its construction on, with callers of start, send    *)
(* and disconnect, and a broker that answers with receipts.                *)
(***************************************************************************)
DefaultTimeout == 10
Timeouts == {DefaultTimeout}

NextLife ==
    \/ Start
    \/ started /\ \E d \in Destinations, b \in Bodies : Send(d, b, <<>>)
    \/ started /\ \E t \in Timeouts : Disconnect(t)
    \/ Sender \/ Receiver \/ Fixer({ConnectedFrame})
    \/ TransportFail
    \/ BrokerSend(ReceiptFrame(0))

SpecLife == InitNew /\ [][NextLife]_vars

(***************************************************************************)
(* The connection with a broker that sends a malformed frame: a body       *)
(* framed by content-length and followed by a byte that is not the null    *)
(* byte.                                                                   *)
(***************************************************************************)
\* the serialization of frame with another byte in place of its null byte
Unterminated(frame) ==
    Take(serialize(frame), Len(serialize(frame)) - 1) \o <<"x">>

MalformedInputs ==
    {Unterminated(Frame(S_MESSAGE,
                        <<[k |-> K_destination, v |-> PyStr(<<"/", "q">>)]>>,
                        <<"h", "i">>))}

NextMalformed ==
    \/ \E d \in Destinations, b \in Bodies : Send(d, b, <<>>)
    \/ Sender \/ Receiver \/ Fixer({ConnectedFrame})
    \/ TransportFail
    \/ \E bytes \in MalformedInputs : BrokerSendBytes(bytes)

SpecMalformed == Init /\ [][NextMalformed]_vars

(***************************************************************************)
(* Properties.                                                             *)
(***************************************************************************)
IsPrefix(s, t) == Len(s) <= Len(t) /\ \A i \in 1..Len(s) : s[i] = t[i]

\* what the receiver's parse_from_socket does with n bytes arrived
RecvTurn(n) == Turn(recv_gen, n)
\* ... and whether it returns a frame, which the receiver then processes
RecvReturns(n) == RecvTurn(n).exc = "none" /\ RecvTurn(n).frame # None

\* the header map h as text: what a header says once it is on the wire
HeaderText(h) == {<<h[i].k, Format(h[i].v)>> : i \in 1..Len(h)}

\* C1: the frames the sender wrote and removed from the outbound queue are
\* the first frames that were enqueued, in the order of their enqueueing
\* (the k-th frame enqueued has id k - 1), whatever the callers, the
\* receiver's auto-acks and the failures of the transport were.
C1_FifoOrder == \A i \in 1..Len(sent) : sent[i] = i - 1

\* C1 happens: two frames were written and removed, and the transport failed
C1_Witness == Len(sent) >= 2 /\ n_fail > 0 /\ send_sock = "superseded"

\* C2: when a write of the sender fails, the queue is as it was (the frame is
\* still at its head, once); the frame being written is always the head of
\* the queue; and the head of the queue changes only when the sender's write
\* of it on a live socket of the engine returned, so that the frame written
\* after ready is set again is the frame whose write failed.
C2_RetrySameFrame ==
    /\ [](send_pc = "sendall" => send_q # <<>>)
    /\ [][(send_pc = "sendall" /\ send_pc' = "wait_ready") => send_q' = send_q]_vars
    /\ [][(send_q # <<>> /\ (send_q' = <<>> \/ send_q'[1].id # send_q[1].id))
            => /\ send_pc = "sendall"
               /\ send_sock = "current" /\ sock_alive
               /\ send_pc' # "wait_ready"
               /\ sent' = Append(sent, send_q[1].id)]_vars

\* C2 happens: a write of the sender failed with a frame on the queue, ready
\* was set again and the sender is about to write
C2_Witness ==
    send_pc = "loop" /\ send_sock # "none" /\ send_q # <<>> /\ sock_ready

\* C3: while stop() is not called and the greenlets are scheduled fairly,
\* once the failures of the transport have ceased every frame put on the
\* outbound queue is eventually written and removed from it.
C3_NoFrameLoss ==
    \A i \in 0..(MaxEnq - 1) :
        (n_enq > i) ~> (\E j \in 1..Len(sent) : sent[j] = i)

\* C4: every call of send(), whatever its extra headers, puts exactly one
\* SEND frame on the queue whose receipt header is the value of the counter
\* at the call, adds that value to no_receipt and advances the counter by
\* one; the counter changes in no other way.
C4_SendAllocatesReceipt ==
    /\ [][\A d \in Destinations, b \in AnyBodies, e \in AnyExtraHeaders :
            Send(d, b, e) =>
                /\ Len(send_q') = Len(send_q) + 1
                /\ SubSeq(send_q', 1, Len(send_q)) = send_q
                /\ send_q'[Len(send_q')].frame.command = S_SEND
                /\ DictHas(send_q'[Len(send_q')].frame.headers, K_receipt)
                /\ DictGet(send_q'[Len(send_q')].frame.headers, K_receipt) = PyInt(msg_id)
                /\ no_receipt' = no_receipt \cup {PyInt(msg_id)}
                /\ msg_id' = msg_id + 1]_vars
    /\ [][msg_id' \in {msg_id, msg_id + 1}]_vars

\* C5: when the receiver processes a RECEIPT frame, the id its receipt-id
\* header names is not in no_receipt afterwards, the other ids of no_receipt
\* stay, and nothing else of the connection's state changes.
C5_ReceiptBookkeeping ==
    [][\A n \in ArrivalSizes :
        (RecvData(n) /\ RecvReturns(n) /\ RecvTurn(n).frame.command = S_RECEIPT) =>
            /\ no_receipt' =
                  {id \in no_receipt :
                      Format(id) # Format(ReceiptId(RecvTurn(n).frame))}
            /\ UNCHANGED <<msg_id, sub_id, session, send_q, on_message_calls>>]_vars

\* C6: when the receiver processes a MESSAGE frame that has an ack header,
\* exactly one ACK frame is appended to the outbound queue; when it processes
\* any other frame, or parses without a frame, the queue is unchanged.
C6_AutoAck ==
    [][\A n \in ArrivalSizes :
        RecvData(n) =>
            IF /\ RecvReturns(n)
               /\ RecvTurn(n).frame.command = S_MESSAGE
               /\ DictHas(RecvTurn(n).frame.headers, K_ack)
            THEN /\ Len(send_q') = Len(send_q) + 1
                 /\ SubSeq(send_q', 1, Len(send_q)) = send_q
                 /\ send_q'[Len(send_q')].frame = Frame(S_ACK, <<>>, <<>>)
            ELSE send_q' = send_q]_vars

\* C6 happens: the receiver processed a MESSAGE with an ack header (its ACK
\* is on the queue or was written) and frames that are not such a MESSAGE
C6_Witness ==
    /\ \E i \in 1..Len(send_q) : send_q[i].frame.command = S_ACK
    /\ \E i \in 1..Len(parse_log) :
          parse_log[i].command = S_MESSAGE /\ DictHas(parse_log[i].headers, K_ack)

\* C7: when the receiver processes a MESSAGE frame, the message handler is
\* called once with that frame, after the calls for the earlier frames; for
\* any other frame it is not called.
C7_MessageHandler ==
    [][\A n \in ArrivalSizes :
        (RecvData(n) /\ RecvReturns(n)) =>
            IF RecvTurn(n).frame.command = S_MESSAGE
            THEN on_message_calls' = Append(on_message_calls, RecvTurn(n).frame)
            ELSE on_message_calls' = on_message_calls]_vars

\* C8: the frames parse_from_socket has returned from a socket are the first
\* frames the broker sent on it, in order and each once.
C8_ExactlyOnce == IsPrefix(parse_log, srv_log)

\* C9: whatever the chunks a serialized frame is cut into, the generator
\* yields no frame before the last chunk, and on the last chunk yields the
\* frame that one send of all the bytes yields.
C9_ChunkedEquivalence ==
    codec_use = "chunks" =>
        IF data_left # <<>>
        THEN parser_out.exc = "none" /\ parser_out.frame = None
        ELSE /\ parser_out.exc = "none"
             /\ parser_out.frame # None
             /\ parser_out.frame = send(NewParser, serialize(frame_in)).frame

\* C10: Frame.parse of the serialization of a valid frame returns a frame
\* with the same command, the same body and the same headers, apart from the
\* content-length that serialize adds.
C10_RoundTrip ==
    codec_use = "parse" =>
        /\ parse_ret.exc = "none"
        /\ parse_ret.frame.command = frame_in.command
        /\ parse_ret.frame.body = frame_in.body
        /\ HeaderText(parse_ret.frame.headers) = HeaderText(SerializedHeaders(frame_in))

\* C11: a fresh parser that is sent an input of one newline byte yields a
\* completed frame of command HEARTBEAT, with a consumed count of 1.
C11_Heartbeat ==
    [][(codec_use = "idle" /\ data_left = <<NL>> /\ Feed(1)) =>
          /\ parser_out'.exc = "none"
          /\ parser_out'.frame # None
          /\ parser_out'.frame.command = S_HEARTBEAT
          /\ parser_out'.consumed = 1]_vars

\* the greenlet has left its loop
Exited(pc) == pc \in {"done", "dead"}

\* the greenlet is inside an operation on the transport: connect, sendall
\* or recv
InTransport(pc) == pc \in {"connect", "sendall", "recv"}

\* C12: after stop(), when each greenlet runs when it can, the sender, the
\* receiver and the reconnector each leave their loop, whatever they were
\* blocked on when stop() was called, unless an operation on the transport
\* does not return.
C12_StopTerminates ==
    stopping ~> (/\ Exited(send_pc) \/ InTransport(send_pc)
                 /\ Exited(recv_pc) \/ InTransport(recv_pc)
                 /\ Exited(fix_pc) \/ InTransport(fix_pc))

\* C13: a call of start() on a started connection raises and changes
\* nothing, no flag and no greenlet; the first call sets sock_broken, leaves
\* sock_ready clear and spawns the sender, the receiver and the reconnector;
\* there are never more than these three.
C13_StartOnce ==
    /\ [](spawned = IF started THEN 3 ELSE 0)
    /\ [][Start =>
            IF started
            THEN /\ start_exc' = "ValueError"
                 /\ UNCHANGED <<engine_vars, codec_vars, started, spawned, disconnect_ret>>
            ELSE /\ start_exc' = "none"
                 /\ started' /\ sock_broken' /\ ~sock_ready'
                 /\ send_pc' = "wait_ready" /\ recv_pc' = "wait_ready" /\ fix_pc' = "loop"
                 /\ UNCHANGED <<stopping, sock, session, send_q, n_enq>>]_vars

\* start() was called again after the connection had begun to work
C13_Witness == start_exc = "ValueError" /\ spawned = 3 /\ sock_ready /\ sent # <<>>

\* C14: disconnect(timeout) puts exactly one DISCONNECT frame on the queue
\* and does not return before the receiver has got a RECEIPT frame or the
\* timeout has passed: the step that makes the call does not return, and the
\* call returns only on a step of the receiver that gets a RECEIPT (no time
\* passes within a step that does not block).
C14_DisconnectWaits ==
    [][/\ \A t \in Timeouts :
            Disconnect(t) =>
                /\ send_q' = put(send_q, Frame(S_DISCONNECT, <<>>, <<>>))
                /\ t > 0 => ~disconnect_ret'
       /\ (~disconnect_ret /\ disconnect_ret') =>
            \E n \in ArrivalSizes :
                /\ RecvData(n) /\ RecvReturns(n)
                /\ RecvTurn(n).frame.command = S_RECEIPT]_vars

\* C15: once the connection is started, in every state exactly one of the
\* events sock_ready and sock_broken is set.
C15_ReadyXorBroken == started => (sock_ready # sock_broken)

\* the connection is broken again after it was ready, a failure behind it
C15_Witness == sock_broken /\ ~sock_ready /\ session # PyNone /\ n_fail > 0 /\ sent # <<>>

\* C16: the sender writes bytes to the transport, and the receiver reads
\* bytes from it, only in states where sock_ready is set; while a reconnect
\* is in progress neither touches the new transport.
C16_ReadyGatesIO ==
    [][/\ SendallOk => sock_ready
       /\ \A n \in ArrivalSizes : RecvData(n) => sock_ready]_vars

\* what the reconnector's parse_from_socket does with n bytes arrived
FixTurn(n) == Turn(fix_gen, n)

\* a step that ends a reconnect attempt without a handshake: the connect,
\* the sendall of CONNECT or a recv raised, the parser raised, or the frame
\* parsed is not a CONNECTED frame with a session header
FailedAttempt ==
    \/ FixConnectError
    \/ FixSendallError
    \/ FixError
    \/ \E n \in ArrivalSizes :
          /\ FixData(n)
          /\ ~Incomplete(FixTurn(n))
          /\ \/ FixTurn(n).exc # "none"
             \/ FixTurn(n).frame.command # S_CONNECTED
             \/ ~DictHas(FixTurn(n).frame.headers, K_session)

\* C17: sock_ready becomes set only on the step that ends a reconnect attempt
\* whose parse of the new socket returned a CONNECTED frame, and session is
\* then the session header of that frame; a step that ends an attempt in
\* failure leaves sock_ready clear, sock_broken set and the queue as it was.
C17_HandshakeSafety ==
    [][/\ (~sock_ready /\ sock_ready') =>
            \E n \in ArrivalSizes :
                /\ FixData(n)
                /\ FixTurn(n).exc = "none"
                /\ FixTurn(n).frame.command = S_CONNECTED
                /\ session' = DictGet(FixTurn(n).frame.headers, K_session)
       /\ FailedAttempt => (~sock_ready' /\ sock_broken' /\ send_q' = send_q)]_vars

\* the connection is ready with the session of the CONNECTED frame parsed
\* from its socket, after an attempt that failed
C17_Witness ==
    /\ sock_ready /\ ~sock_broken
    /\ session = PyStr(<<"s">>)
    /\ n_fail > 0
    /\ \E i \in 1..Len(parse_log) : parse_log[i] = ConnectedFrame

\* C18: as long as stop() is not called, whenever sock_broken is set the
\* reconnector goes on attempting, and when each greenlet runs when it can
\* and the broker answers every handshake with CONNECTED, sock_ready is
\* eventually set and the sender and the receiver are no longer waiting
\* for it.
C18_ReconnectLiveness ==
    sock_broken ~> (sock_ready /\ send_pc # "wait_ready" /\ recv_pc # "wait_ready")

\* C19: when the parser raises on what the receiver reads (a body framed by
\* content-length that is not followed by the null byte), the receiver does
\* not terminate: it clears sock_ready, sets sock_broken and waits for
\* sock_ready, as it does when the transport fails.
C19_ParseFailureRecovered ==
    [][\A n \in ArrivalSizes :
        (RecvData(n) /\ RecvTurn(n).exc # "none") =>
            /\ recv_pc' = "wait_ready"
            /\ ~sock_ready'
            /\ sock_broken']_vars

=============================================================================
